---- MODULE Spec2Model ----
(***************************************************************************)
(* Offline-first synchronisation engine of the clubfridge kiosk            *)
(* (app/sync.py, app/api_client.py, app/local_db.py, app/ui/app.py).       *)
(*                                                                         *)
(* Threads of the process: the Kivy main thread (build, on_start, the      *)
(* purchase confirmation, the forced refresh, the scheduled restart), the  *)
(* SyncManager daemon thread (_loop), the SSEListener daemon thread        *)
(* (app/sse_listener.py) and the short-lived daemon threads started by     *)
(* submit_booking and force_refresh.  Every network call and every         *)
(* local_db transaction is one atomic step; threads interleave between     *)
(* them.                                                                   *)
(***************************************************************************)
EXTENDS Integers, FiniteSets, Sequences, TLC

(* ------------------------------ bounds -------------------------------- *)

\* bookings the front end creates in one run of the model
MaxBookings == 2
\* forced refreshes the front end starts between two process starts
MaxForceRefresh == 1
\* consecutive failed connection attempts of the SSEListener that are counted
MaxFails == 7
\* lines of the event stream the SSEListener receives
MaxLines == 4
\* connections of the SSEListener the lines arrive on
MaxConns == 2
\* consecutive failed connection attempts before stop() in the model of the
\* cancellation
MaxStopFails == 1
\* hot-swap requests handed to the Kivy clock in one run of the lock model
MaxSwaps == 2
\* calls of Lock.open() that start a LockPulse thread in one run of it
MaxPulses == 3

(* ------------------------- program constants -------------------------- *)

sync_interval_seconds == 60
cache_refresh_interval_seconds == 300

AUTH_ERROR_CODES == {401, 403, 404}

\* app/sse_listener.py (seconds)
INITIAL_BACKOFF == 1
MAX_BACKOFF == 30
SSE_AUTH_CODES == {401, 403, 404}

(* ------------------------------ inputs -------------------------------- *)

Statuses == {200, 201, 204, 400, 401, 403, 404, 500}
Bodies == {"json", "not_json"}

\* what one HTTP exchange can end with: a response, or no response at all
Responses ==
    [kind : {"http"}, status : Statuses, body : Bodies]
        \cup {[kind |-> k, status |-> 0, body |-> "none"] : k \in {"timeout", "connect_error"}}

NoResponse == [kind |-> "none", status |-> 0, body |-> "none"]

BookingIds == 1..MaxBookings
\* collections the server answers fetch_members / fetch_products with, and
\* lock configurations of fetch_config (0: the configuration has no lock)
Snapshots == {1}
LockConfigs == {0, 1}

\* the members (products) of a snapshot in the order of the server's list,
\* each <<id, rfid_token>> (<<id, barcode>>); 0 is None, snapshot 3 has one
\* token twice
SnapshotList(s) ==
    CASE s = 1 -> << <<"a", "k1">>, <<"b", "k2">> >>
      [] s = 2 -> << <<"a", "k1">>, <<"c", "k3">> >>
      [] s = 3 -> << <<"d", "k4">>, <<"e", "k4">> >>
      [] OTHER -> << >>

SnapshotRows(s) == {SnapshotList(s)[i] : i \in 1..Len(SnapshotList(s))}

\* the LockPulse threads and the drivers of one run of the lock model: the
\* driver of the start and one for every hot-swap
PulseIds == 1..MaxPulses
DriverIds == 1..(MaxSwaps + 1)
NoPulse == [drv |-> 0, pc |-> "none", calls |-> << >>]

\* snapshots a caller of local_db passes to the replace functions
StoreSnapshots == {1, 2, 3}

(* ----------------------------- threads -------------------------------- *)

LoopT == <<"loop", 0>>
FlushTs == {<<"flush", i>> : i \in 1..MaxBookings}
ForceTs == {<<"force", i>> : i \in 1..MaxForceRefresh}
\* a second caller of _deprovision (DeprovSpec only)
ExtT == <<"ext", 1>>
ExtTs == {ExtT}
Threads == {LoopT} \cup FlushTs \cup ForceTs \cup ExtTs

(* ------------------ app/api_client.py: pure parts --------------------- *)

\* httpx: Response.is_success
IsSuccess(r) == r.kind = "http" /\ r.status >= 200 /\ r.status <= 299

\* variant: every 2xx status counts as online
is_online_2xx(r) == IsSuccess(r)

\* ApiClient.is_online: True only for status 200, False for everything else
is_online(r) == r.kind = "http" /\ r.status = 200

\* ApiClient.heartbeat: "ok" or the name of the exception it raises.  The
\* AuthError message is built from r.json(), which raises on a body that is
\* not JSON before AuthError is constructed.
heartbeat(r) ==
    IF r.kind # "http" THEN "RequestError"
    ELSE IF r.status \in AUTH_ERROR_CODES
         THEN (IF r.body = "json" THEN "AuthError" ELSE "JSONDecodeError")
    ELSE IF IsSuccess(r) THEN "ok"
    ELSE "HTTPStatusError"

\* ApiClient.fetch_members / fetch_products: "ok", "AuthError" or "error"
fetch_outcome(r) ==
    IF r.kind # "http" THEN "error"
    ELSE IF r.status \in AUTH_ERROR_CODES THEN "AuthError"
    ELSE IF IsSuccess(r) /\ r.body = "json" THEN "ok"
    ELSE "error"

\* ApiClient.sync_bookings: never raises; True for an empty batch without a
\* request, else True exactly when raise_for_status() does not raise
sync_bookings(bookings, r) ==
    IF bookings = {} THEN TRUE ELSE IsSuccess(r)

\* ApiClient.sync_bookings: `if not bookings: return True` comes before the POST
sync_bookings_posts(bookings) == bookings # {}

(* --------------- app/sse_listener.py: lines and events ---------------- *)

\* what follows "event: " in a line, and what follows "data: ": a JSON
\* object, a JSON value that is no object, and text that is no JSON; two or
\* more of these joined by a newline are no JSON
EventTypes == {"lock:open", "other", ""}
DataTokens == {"{}", "[]", "x"}

\* the lines iter_lines() yields: ":..." comments, "event: ...", "data: ...",
\* the empty line, and any other line (such as "id: 1")
Lines ==
    [kind : {"event"}, val : EventTypes]
        \cup [kind : {"data"}, val : DataTokens]
        \cup [kind : {"comment", "blank", "other"}, val : {""}]

NoLine == [kind |-> "none", val |-> ""]

\* json.loads("\n".join(data_lines))
JsonKind(d) ==
    IF Len(d) # 1 THEN "invalid"
    ELSE IF d[1] = "{}" THEN "object"
    ELSE IF d[1] = "[]" THEN "value"
    ELSE "invalid"

\* SSEListener._handle_event with _trigger_lock_open: "requested" when an
\* _open callback is handed to the Kivy clock, "ignored" when the function
\* returns without, "raised" when data.get(...) fails on a JSON value that
\* is no object
handle_event(type, d) ==
    IF JsonKind(d) = "invalid" THEN "ignored"
    ELSE IF type # "lock:open" THEN "ignored"
    ELSE IF JsonKind(d) = "object" THEN "requested"
    ELSE "raised"

\* variant: a line that matches no branch ends the event like the empty line
LineBranch_strict(line) ==
    IF line.kind = "comment" THEN "continue"
    ELSE IF line.kind = "event" THEN "event"
    ELSE IF line.kind = "data" THEN "data"
    ELSE "flush"

\* the branch of the if/elif chain of the line loop a line takes: "none"
\* when no condition matches
LineBranch(line) ==
    IF line.kind = "comment" THEN "continue"
    ELSE IF line.kind = "event" THEN "event"
    ELSE IF line.kind = "data" THEN "data"
    ELSE IF line.kind = "blank" THEN "flush"
    ELSE "none"

\* variant: the pending event survives the end of the connection
NewParser_kept(type, d) == [type |-> type, data |-> d]

\* `event_type = None` and `data_lines = []` at the start of the line loop
\* of every call of _connect_and_consume, whatever was pending (type, d) in
\* the call before
NewParser(type, d) == [type |-> "none", data |-> << >>]

\* variant: a group of data lines is dispatched without an event type
Dispatches_untyped(type, d) == d # << >>

\* `if event_type and data_lines:`
Dispatches(type, d) == type \notin {"none", ""} /\ d # << >>

(* ------------------------------ state --------------------------------- *)

VARIABLES
    \* persisted: kasse_local.db and .env
    rows,            \* ids of the rows of pending_bookings
    syncedRows,      \* ids of the rows with synced = True
    nextId,          \* bookings created so far (ids are never reused)
    cachedMembers,   \* the rows of cached_members
    cachedProducts,  \* the rows of cached_products
    lockConfig,      \* cached lock configuration: 0 = none
    envFile,         \* .env exists (with an API key)
    \* the process
    mode,            \* "boot" | "normal" | "setup" | "stopped"
    running,         \* SyncManager._running
    online,          \* SyncManager.online
    age,             \* time.monotonic() - _last_cache_refresh_ts, saturated
    sseRunning,      \* SSEListener._running
    restartScheduled,\* the os.execv callback is scheduled on the Kivy clock
    pc,              \* position of every thread
    lret,            \* where the loop thread's _try_refresh_cache returns to
    batch,           \* _try_sync_bookings: the local `pending`, per thread
    fm, fp,          \* _try_refresh_cache: the locals members / products
    forceCount,      \* force_refresh threads started since the process start
    \* observation of the run (read by no action guard)
    hbResp,          \* the response the heartbeat just got
    cyc,             \* what the current cycle of _loop has done so far
    acked,           \* ids in a batch for which sync_bookings returned True
    dupSent,         \* ids sent in a batch while already marked synced
    deprovCalls,     \* invocations of _deprovision
    wipes,           \* executions of clear_all_caches
    restartRequests, \* restart callbacks handed to the Kivy clock
    deprovClean,     \* "none", or what _deprovision left behind on return
    loopEnd,         \* "none", or how the loop thread ended
    stopCalled,      \* SyncManager.stop() was called
    \* the lock driver
    lastLock,        \* SyncManager._last_lock_config_json: 0 is None
    appliedLock,     \* the configuration app.lock was built from: 0 is none
    swapReq,         \* the _swap callbacks scheduled on the Kivy clock: << >>,
                     \* or the configuration of the one scheduled last
    \* the SSEListener thread
    ssePc,           \* its position
    backoff,         \* the local `backoff` of SSEListener._loop
    \* observation of the SSEListener (read by no action guard but the cap)
    sseFails,        \* failed attempts since the start or the last connection
    sseConnected,    \* a connection was opened since the start
    sseLast,         \* how the latest attempt or connection ended
    sseDelay,        \* the delay slept after it, 0 before the sleep
    sseEnd,          \* "none", or why SSEListener._loop returned
    \* one call of ApiClient.sync_bookings by itself
    gwPc,            \* "idle" | "called" | "returned"
    gwBookings,      \* its argument
    gwResp,          \* what the server answers the POST with, if it is sent
    gwSent,          \* the POST was sent
    gwRet,           \* "none", or the value returned
    \* one local_db transaction (get_session) step by step, and a reader
    txOp,            \* "none", or the local_db function called
    txPc,            \* "idle" | "delete" | "add" | "update" | "commit"
    txArg,           \* its argument
    txWork,          \* the tables as the session of the call sees them
    txAdded,         \* items of the argument list added to the session
    txBefore,        \* observation: the committed tables when it was called
    txOutcome,       \* observation: "none" | "returned" | "raised"
    txError,         \* observation: "none" | "IntegrityError" | "error"
    readObs,         \* observation: the latest lookup of a reader
    \* the line loop of SSEListener._connect_and_consume
    frConn,          \* calls of _connect_and_consume so far
    frConnData,      \* observation: "data: " lines received in this call
    frDropped,       \* observation: what was pending when the call before ended
    frN,             \* lines received so far
    frLine,          \* the line received last
    frType,          \* the local `event_type`: "none" is None
    frData,          \* the local `data_lines`
    frOut,           \* observation: the events passed to _handle_event
    frAlive,         \* the loop is still running (no exception left it)
    lockRequests,    \* observation: _open callbacks handed to the Kivy clock
    \* the lock drivers of app/hardware/lock.py and the _swap callbacks
    lkDrivers,       \* the configuration of every driver constructed so far;
                     \* a driver is named by its index
    lkDrv,           \* app.lock: the active driver
    lkReleased,      \* drivers whose cleanup() was called
    lkQueue,         \* configurations of the _swap callbacks on the Kivy clock
    lkSwapPc,        \* "idle", or "cleaned": a _swap is past old.cleanup()
    lkSwapCfg,       \* the lock_config of the _swap that is running
    lkPulse,         \* every LockPulse thread: its driver, its position and
                     \* (observation) its calls of _activate and _deactivate
    lkMutex,         \* Lock._lock of every driver: 0, or the thread holding it
    lkEvent,         \* Lock._close_event of every driver
    lkPosted,        \* observation: the configurations posted, in order
    lkExecuted,      \* observation: the configurations of the _swap run, in order
    lkMisuse         \* observation: <<driver, call>> made on a released driver

store == <<rows, syncedRows, nextId, cachedMembers, cachedProducts, lockConfig>>
proc == <<mode, running, online, age, sseRunning, restartScheduled, forceCount>>
locals == <<pc, lret, batch, fm, fp>>
obs == <<hbResp, cyc, acked, dupSent, deprovCalls, wipes, restartRequests,
         deprovClean, loopEnd, stopCalled>>
sseVars == <<ssePc, backoff, sseFails, sseConnected, sseLast, sseDelay, sseEnd>>
gwVars == <<gwPc, gwBookings, gwResp, gwSent, gwRet>>
txVars == <<txOp, txPc, txArg, txWork, txAdded, txBefore, txOutcome, txError, readObs>>
frVars == <<frConn, frConnData, frDropped, frN, frLine, frType, frData, frOut, frAlive,
           lockRequests>>
lkVars == <<lkDrivers, lkDrv, lkReleased, lkQueue, lkSwapPc, lkSwapCfg, lkPulse, lkMutex,
           lkEvent, lkPosted, lkExecuted, lkMisuse>>
harness == <<gwVars, txVars, frVars, lkVars>>
lockVars == <<lastLock, appliedLock, swapReq>>
engine == <<store, envFile, proc, locals, obs, sseVars, lockVars>>
vars == <<engine, harness>>

NoCycle == [probe |-> "none", hb |-> "none", flushed |-> FALSE, refreshed |-> FALSE]


AgeCap == cache_refresh_interval_seconds + sync_interval_seconds
Min(a, b) == IF a < b THEN a ELSE b

RECURSIVE Pow2(_)
Pow2(n) == IF n <= 0 THEN 1 ELSE 2 * Pow2(n - 1)

(* --------------------------- app/local_db.py --------------------------- *)
(* Each function is one transaction (get_session commits or rolls back).   *)

get_pending_bookings == rows \ syncedRows

save_pending_booking(id) ==
    /\ rows' = rows \cup {id}
    /\ syncedRows' = syncedRows
    /\ nextId' = id

\* variant: the UPDATE without its id filter
mark_every_row(ids) ==
    /\ syncedRows' = syncedRows \cup rows
    /\ rows' = rows

\* variant: delivered rows are deleted instead of flagged
mark_and_purge(ids) ==
    /\ syncedRows' = syncedRows
    /\ rows' = rows \ ids

mark_bookings_synced(ids) ==
    /\ syncedRows' = syncedRows \cup (ids \cap rows)
    /\ rows' = rows

replace_member_cache(m) == cachedMembers' = SnapshotRows(m)

replace_product_cache(p) == cachedProducts' = SnapshotRows(p)

save_lock_config(l) == lockConfig' = l

clear_all_caches ==
    /\ rows' = {}
    /\ syncedRows' = {}
    /\ cachedMembers' = {}
    /\ cachedProducts' = {}
    /\ lockConfig' = 0

\* get_cached_lock_config(): the stored lock configuration; 0 stands for
\* none, where the driver comes from the .env relay settings or is the NoopLock
get_cached_lock_config == lockConfig

\* the committed content of kasse_local.db
Committed ==
    [members |-> cachedMembers, products |-> cachedProducts,
     rows |-> rows, synced |-> syncedRows]

NoRead == [table |-> "none", at |-> "none", seen |-> {}]

\* app/provision.py: is_configured
is_configured == envFile

(* -------------------- control transfer of a thread --------------------- *)

Goto(t, l) == pc' = [pc EXCEPT ![t] = l]

\* where an exception that no handler of the current function catches ends:
\* in the loop thread, the startup refresh (line 76) is outside the try of the
\* while loop, so the exception ends the thread; inside a cycle the outer
\* `except Exception` logs it and the loop goes to sleep.  A thread started
\* by submit_booking or force_refresh just ends ("none": no such thread).
RaisePc(t) ==
    IF t = LoopT THEN (IF lret = "startup" THEN "crashed" ELSE "l_sleep")
    ELSE "none"

Raise(t) ==
    /\ Goto(t, RaisePc(t))
    /\ loopEnd' = IF RaisePc(t) = "crashed" THEN "exception" ELSE loopEnd

\* where _try_sync_bookings returns to
FlushReturnPc(t) == IF t = LoopT THEN "l_age" ELSE "none"

\* where _try_refresh_cache returns to
RefreshReturnPc(t) ==
    IF t = LoopT THEN (IF lret = "startup" THEN "l_top" ELSE "l_sleep")
    ELSE "none"

(* ------------------ SyncManager._try_sync_bookings --------------------- *)

\* pending = get_pending_bookings(); if not pending: return
FlushEnumerate(t) ==
    /\ pc[t] = "f_enum"
    /\ \/ /\ batch' = [batch EXCEPT ![t] = get_pending_bookings]
          /\ Goto(t, IF get_pending_bookings = {} THEN FlushReturnPc(t) ELSE "f_send")
          /\ UNCHANGED loopEnd
       \/ /\ Raise(t)
          /\ UNCHANGED batch
    /\ UNCHANGED <<store, envFile, proc, lret, fm, fp, hbResp, cyc, acked, dupSent,
                   deprovCalls, wipes, restartRequests, deprovClean, stopCalled>>

\* if self._api.sync_bookings(payload): ...
FlushSend(t) ==
    /\ pc[t] = "f_send"
    /\ \E r \in Responses :
          /\ dupSent' = dupSent \cup (batch[t] \cap syncedRows)
          /\ IF sync_bookings(batch[t], r)
             THEN /\ acked' = acked \cup batch[t]
                  /\ Goto(t, "f_mark")
                  /\ UNCHANGED batch
             ELSE /\ Goto(t, FlushReturnPc(t))
                  /\ batch' = [batch EXCEPT ![t] = {}]
                  /\ UNCHANGED acked
    /\ UNCHANGED <<store, envFile, proc, lret, fm, fp, hbResp, cyc, deprovCalls,
                   wipes, restartRequests, deprovClean, loopEnd, stopCalled>>

\* mark_bookings_synced([b.id for b in pending])
FlushMark(t) ==
    /\ pc[t] = "f_mark"
    /\ \/ /\ mark_bookings_synced(batch[t])
          /\ Goto(t, FlushReturnPc(t))
          /\ UNCHANGED loopEnd
       \/ /\ Raise(t)
          /\ UNCHANGED <<rows, syncedRows>>
    /\ batch' = [batch EXCEPT ![t] = {}]
    /\ UNCHANGED <<nextId, cachedMembers, cachedProducts, lockConfig, envFile, proc,
                   lret, fm, fp, hbResp, cyc, acked, dupSent, deprovCalls, wipes,
                   restartRequests, deprovClean, stopCalled>>


(* ------------------ SyncManager._try_refresh_cache --------------------- *)

\* variant: a failed fetch_members() goes on to the products
MembersFailedPc_goon(t) == "r_products"

\* `except AuthError` and `except Exception` of fetch_members(): return
MembersFailedPc(t) == RefreshReturnPc(t)

\* members = self._api.fetch_members(); any failure: return
RefreshMembers(t) ==
    /\ pc[t] = "r_members"
    /\ \E r \in Responses, data \in Snapshots :
          IF fetch_outcome(r) = "ok"
          THEN /\ fm' = [fm EXCEPT ![t] = data]
               /\ Goto(t, "r_products")
          ELSE /\ Goto(t, MembersFailedPc(t))
               /\ UNCHANGED fm
    /\ lret' = IF t = LoopT /\ pc'[t] = "l_top" THEN "cycle" ELSE lret
    /\ UNCHANGED <<store, envFile, proc, batch, fp, obs>>

\* products = self._api.fetch_products(); any failure: products = None
RefreshProducts(t) ==
    /\ pc[t] = "r_products"
    /\ \E r \in Responses, data \in Snapshots :
          fp' = [fp EXCEPT ![t] = IF fetch_outcome(r) = "ok" THEN data ELSE 0]
    /\ Goto(t, "r_repl_m")
    /\ UNCHANGED <<store, envFile, proc, lret, batch, fm, obs>>

\* variant: replace_product_cache is called whatever `products` is
AfterMembersPc_always(products) == "r_repl_p"

\* `if products is not None:` replace the products, else go on to the config
AfterMembersPc(products) == IF products # 0 THEN "r_repl_p" ELSE "r_config"

\* replace_member_cache([...])
RefreshReplaceMembers(t) ==
    /\ pc[t] = "r_repl_m"
    /\ \/ /\ replace_member_cache(fm[t])
          /\ Goto(t, AfterMembersPc(fp[t]))
          /\ UNCHANGED <<loopEnd, fp>>
       \/ /\ Raise(t)
          /\ fp' = [fp EXCEPT ![t] = 0]
          /\ UNCHANGED cachedMembers
    /\ fm' = [fm EXCEPT ![t] = 0]
    /\ UNCHANGED <<rows, syncedRows, nextId, cachedProducts, lockConfig, envFile, proc,
                   lret, batch, hbResp, cyc, acked, dupSent, deprovCalls, wipes,
                   restartRequests, deprovClean, stopCalled>>

\* if products is not None: replace_product_cache([...])
RefreshReplaceProducts(t) ==
    /\ pc[t] = "r_repl_p"
    /\ \/ /\ replace_product_cache(fp[t])
          /\ Goto(t, "r_config")
          /\ UNCHANGED loopEnd
       \/ /\ Raise(t)
          /\ UNCHANGED cachedProducts
    /\ fp' = [fp EXCEPT ![t] = 0]
    /\ UNCHANGED <<rows, syncedRows, nextId, cachedMembers, lockConfig, envFile, proc,
                   lret, batch, fm, hbResp, cyc, acked, dupSent, deprovCalls, wipes,
                   restartRequests, deprovClean, stopCalled>>

\* _try_refresh_config: `if new_json != self._last_lock_config_json:`
HotSwapDue(new, last) == new # last

\* self._try_refresh_config(): fetch_config() failing or answering None
\* changes nothing; else save_lock_config(config.get("lock")) and, when the
\* lock differs from _last_lock_config_json, that field is set and _swap is
\* scheduled on the Kivy clock.  Then self._last_cache_refresh_ts =
\* time.monotonic() and the function returns.
RefreshConfig(t) ==
    /\ pc[t] = "r_config"
    /\ \/ /\ \E r \in Responses, lock \in LockConfigs :
                IF fetch_outcome(r) = "ok"
                THEN /\ save_lock_config(lock)
                     /\ lastLock' = lock
                     /\ swapReq' = IF HotSwapDue(lock, lastLock) THEN <<lock>> ELSE swapReq
                ELSE UNCHANGED <<lockConfig, lastLock, swapReq>>
          /\ age' = 0
          /\ Goto(t, RefreshReturnPc(t))
          /\ UNCHANGED loopEnd
       \/ /\ Raise(t)
          /\ UNCHANGED <<lockConfig, age, lastLock, swapReq>>
    /\ UNCHANGED appliedLock
    /\ lret' = IF t = LoopT /\ pc'[t] = "l_top" THEN "cycle" ELSE lret
    /\ UNCHANGED <<rows, syncedRows, nextId, cachedMembers, cachedProducts, envFile,
                   mode, running, online, sseRunning, restartScheduled, forceCount,
                   batch, fm, fp, hbResp, cyc, acked, dupSent, deprovCalls, wipes,
                   restartRequests, deprovClean, stopCalled>>

(* ------------------------- SyncManager._loop --------------------------- *)

\* while self._running: self.online = self._api.is_online()
LoopTop ==
    /\ pc[LoopT] = "l_top"
    /\ IF ~running
       THEN /\ Goto(LoopT, "returned")
            /\ loopEnd' = IF deprovCalls > 0 THEN "auth" ELSE "stop"
            /\ UNCHANGED <<online, cyc>>
       ELSE \E r \in Responses :
               /\ online' = is_online(r)
               /\ cyc' = [NoCycle EXCEPT !.probe = IF is_online(r) THEN "ok" ELSE "fail"]
               /\ Goto(LoopT, IF is_online(r) THEN "l_hb" ELSE "l_sleep")
               /\ UNCHANGED loopEnd
    /\ UNCHANGED <<store, envFile, mode, running, age, sseRunning, restartScheduled,
                   forceCount, lret, batch, fm, fp, hbResp, acked, dupSent,
                   deprovCalls, wipes, restartRequests, deprovClean, stopCalled>>

HbClass(o) == IF o = "ok" THEN "ok" ELSE IF o = "AuthError" THEN "auth" ELSE "error"

\* self._api.heartbeat()
LoopHeartbeat ==
    /\ pc[LoopT] = "l_hb"
    /\ \E r \in Responses :
          /\ hbResp' = r
          /\ cyc' = [cyc EXCEPT !.hb = HbClass(heartbeat(r))]
    /\ Goto(LoopT, "l_hb_done")
    /\ UNCHANGED <<store, envFile, proc, lret, batch, fm, fp, acked, dupSent,
                   deprovCalls, wipes, restartRequests, deprovClean, loopEnd, stopCalled>>

\* variant: every heartbeat error other than AuthError is swallowed
AfterHeartbeatPc_swallow(o) == IF o = "AuthError" THEN "d_call" ELSE "f_enum"

\* variant: every heartbeat error deprovisions
AfterHeartbeatPc_strict(o) == IF o = "ok" THEN "f_enum" ELSE "d_call"

\* where the loop goes once heartbeat() has returned or raised
AfterHeartbeatPc(o) ==
    IF o = "ok" THEN "f_enum"
    ELSE IF o = "AuthError" THEN "d_call"
    ELSE "l_sleep"

LoopAfterHeartbeat ==
    /\ pc[LoopT] = "l_hb_done"
    /\ Goto(LoopT, AfterHeartbeatPc(heartbeat(hbResp)))
    /\ cyc' = [cyc EXCEPT !.flushed = (pc'[LoopT] = "f_enum")]
    /\ hbResp' = NoResponse
    /\ UNCHANGED <<store, envFile, proc, lret, batch, fm, fp, acked, dupSent,
                   deprovCalls, wipes, restartRequests, deprovClean, loopEnd, stopCalled>>

\* variant: the refresh runs in every cycle
RefreshDue_always == TRUE

\* age = time.monotonic() - self._last_cache_refresh_ts
\* if age > settings.cache_refresh_interval_seconds: self._try_refresh_cache()
RefreshDue == age > cache_refresh_interval_seconds

LoopAgeCheck ==
    /\ pc[LoopT] = "l_age"
    /\ Goto(LoopT, IF RefreshDue THEN "r_members" ELSE "l_sleep")
    /\ cyc' = [cyc EXCEPT !.refreshed = RefreshDue]
    /\ UNCHANGED <<store, envFile, proc, lret, batch, fm, fp, hbResp, acked, dupSent,
                   deprovCalls, wipes, restartRequests, deprovClean, loopEnd, stopCalled>>

\* time.sleep(settings.sync_interval_seconds)
LoopSleep ==
    /\ pc[LoopT] = "l_sleep"
    /\ age' = Min(age + sync_interval_seconds, AgeCap)
    /\ Goto(LoopT, "l_top")
    /\ cyc' = NoCycle
    /\ UNCHANGED <<store, envFile, mode, running, online, sseRunning, restartScheduled,
                   forceCount, lret, batch, fm, fp, hbResp, acked, dupSent, deprovCalls,
                   wipes, restartRequests, deprovClean, loopEnd, stopCalled>>

(* ---------------------- SyncManager._deprovision ----------------------- *)

\* variant: no `return` after self._deprovision()
DeprovReturnPc_fallthrough(t) == IF t = LoopT THEN "f_enum" ELSE "none"

\* where _deprovision returns to: _loop returns right after it (line 89)
DeprovReturnPc(t) == IF t = LoopT THEN "returned" ELSE "none"

\* self._running = False
DeprovCall(t) ==
    /\ pc[t] = "d_call"
    /\ running' = FALSE
    /\ deprovCalls' = deprovCalls + 1
    /\ Goto(t, "d_clear")
    /\ UNCHANGED <<store, envFile, mode, online, age, sseRunning, restartScheduled,
                   forceCount, lret, batch, fm, fp, hbResp, cyc, acked, dupSent, wipes,
                   restartRequests, deprovClean, loopEnd, stopCalled>>

\* clear_all_caches()
DeprovClear(t) ==
    /\ pc[t] = "d_clear"
    /\ \/ /\ clear_all_caches
          /\ wipes' = wipes + 1
          /\ Goto(t, "d_unlink")
          /\ UNCHANGED loopEnd
       \/ /\ Raise(t)
          /\ UNCHANGED <<rows, syncedRows, cachedMembers, cachedProducts, lockConfig, wipes>>
    /\ UNCHANGED <<nextId, envFile, proc, lret, batch, fm, fp, hbResp, cyc, acked,
                   dupSent, deprovCalls, restartRequests, deprovClean, stopCalled>>

\* env.unlink(missing_ok=True)
DeprovUnlink(t) ==
    /\ pc[t] = "d_unlink"
    /\ envFile' = FALSE
    /\ Goto(t, "d_sched")
    /\ UNCHANGED <<store, proc, lret, batch, fm, fp, obs>>

StoreEmpty ==
    rows = {} /\ cachedMembers = {} /\ cachedProducts = {} /\ lockConfig = 0

\* Clock.schedule_once(lambda _dt: os.execv(...), 2.0), then return
DeprovSchedule(t) ==
    /\ pc[t] = "d_sched"
    /\ restartScheduled' = TRUE
    /\ restartRequests' = restartRequests + 1
    /\ deprovClean' = IF StoreEmpty /\ ~envFile THEN "clean" ELSE "dirty"
    /\ Goto(t, DeprovReturnPc(t))
    /\ loopEnd' = IF t = LoopT THEN "auth" ELSE loopEnd
    /\ UNCHANGED <<store, envFile, mode, running, online, age, sseRunning, forceCount,
                   lret, batch, fm, fp, hbResp, cyc, acked, dupSent, deprovCalls, wipes,
                   stopCalled>>


(* ------------------- app/sse_listener.py: SSEListener ------------------ *)

\* client.stream("GET", .../events) and response.raise_for_status(): "ok",
\* or what is raised: "auth" and "http_error" are httpx.HTTPStatusError with
\* and without a status of line 57, "error" is any other exception
sse_connect(r) ==
    IF r.kind # "http" THEN "error"
    ELSE IF IsSuccess(r) THEN "ok"
    ELSE IF r.status \in SSE_AUTH_CODES THEN "auth"
    ELSE "http_error"

\* variant: the delay doubles without a ceiling
NextBackoff_unbounded(b) == b * 2

\* backoff = min(backoff * 2, _MAX_BACKOFF)
NextBackoff(b) == Min(b * 2, MAX_BACKOFF)

\* variant: the loop of the SSEListener does not read _running
SseTopPc_ignore(flag) == "s_connect"

\* `while self._running:` of SSEListener._loop
SseTopPc(flag) == IF flag THEN "s_connect" ELSE "returned"

\* while self._running:
SseTop ==
    /\ ssePc = "s_top"
    /\ ssePc' = SseTopPc(sseRunning)
    /\ sseEnd' = IF sseRunning THEN sseEnd ELSE "stop"
    /\ UNCHANGED <<store, envFile, proc, locals, obs, backoff, sseFails, sseConnected,
                   sseLast, sseDelay>>

\* variant: no `return` after `self._running = False`
SseAuthPc_retry == "s_check"

\* where SSEListener._loop goes after an HTTPStatusError of line 57
SseAuthPc == "returned"

\* self._connect_and_consume(), up to `response.raise_for_status()`
SseConnect ==
    /\ ssePc = "s_connect"
    /\ sseDelay' = 0
    /\ \E r \in Responses :
          CASE sse_connect(r) = "ok" ->
                  /\ ssePc' = "s_stream"
                  /\ sseFails' = 0
                  /\ sseConnected' = TRUE
                  /\ sseLast' = "open"
                  /\ UNCHANGED <<sseRunning, sseEnd>>
            [] sse_connect(r) = "auth" ->
                  /\ sseRunning' = FALSE
                  /\ ssePc' = SseAuthPc
                  /\ sseEnd' = "auth"
                  /\ sseLast' = "auth"
                  /\ UNCHANGED <<sseFails, sseConnected>>
            [] OTHER ->
                  /\ sseFails < MaxFails
                  /\ sseFails' = sseFails + 1
                  /\ ssePc' = "s_check"
                  /\ sseLast' = "failed"
                  /\ UNCHANGED <<sseRunning, sseConnected, sseEnd>>
    /\ UNCHANGED <<store, envFile, mode, running, online, age, restartScheduled,
                   forceCount, locals, obs, backoff>>

\* _connect_and_consume, `for line in response.iter_lines()`: the stream ends
\* (the server closed it, or _running is False at the next line) and the
\* function returns, then `backoff = _INITIAL_BACKOFF`; or reading raises
SseStream ==
    /\ ssePc = "s_stream"
    /\ \/ /\ backoff' = INITIAL_BACKOFF
          /\ sseLast' = "closed"
       \/ /\ sseLast' = "read_error"
          /\ UNCHANGED backoff
    /\ ssePc' = "s_check"
    /\ UNCHANGED <<store, envFile, proc, locals, obs, sseFails, sseConnected, sseDelay,
                   sseEnd>>

\* if not self._running: break
SseCheck ==
    /\ ssePc = "s_check"
    /\ ssePc' = IF sseRunning THEN "s_sleep" ELSE "returned"
    /\ sseEnd' = IF sseRunning THEN sseEnd ELSE "stop"
    /\ UNCHANGED <<store, envFile, proc, locals, obs, backoff, sseFails, sseConnected,
                   sseLast, sseDelay>>

\* time.sleep(backoff); backoff = min(backoff * 2, _MAX_BACKOFF)
SseSleep ==
    /\ ssePc = "s_sleep"
    /\ sseDelay' = backoff
    /\ backoff' = NextBackoff(backoff)
    /\ ssePc' = "s_top"
    /\ UNCHANGED <<store, envFile, proc, locals, obs, sseFails, sseConnected, sseLast,
                   sseEnd>>

\* the SSEListener thread
SseThread ==
    /\ SseTop \/ SseConnect \/ SseStream \/ SseCheck \/ SseSleep
    /\ UNCHANGED <<lockVars, harness>>

(* ----------------- the Kivy main thread: app/ui/app.py ----------------- *)

NoThreads == [t \in Threads |-> "none"]
NoBatches == [t \in {LoopT} \cup FlushTs |-> {}]
NoFetched == [t \in {LoopT} \cup ForceTs |-> 0]

\* values of time.monotonic() when the SyncManager thread starts
BootClocks == {0, AgeCap}

\* KasseApp.build and on_start: setup mode without configuration, else the
\* SyncManager and the SSEListener are created and started; the SyncManager
\* thread begins with _try_refresh_cache() (line 76)
AppStart ==
    /\ mode = "boot"
    /\ IF is_configured
       THEN /\ mode' = "normal"
            /\ running' = TRUE
            /\ sseRunning' = TRUE
            /\ \E a \in BootClocks : age' = a
            /\ Goto(LoopT, "r_members")
            /\ ssePc' = "s_top"
            /\ backoff' = INITIAL_BACKOFF
            /\ appliedLock' = get_cached_lock_config
       ELSE /\ mode' = "setup"
            /\ UNCHANGED <<running, sseRunning, age, pc, ssePc, backoff, appliedLock>>
    /\ UNCHANGED <<store, envFile, online, restartScheduled, forceCount, lret, batch,
                   fm, fp, obs, sseFails, sseConnected, sseLast, sseDelay, sseEnd,
                   lastLock, swapReq, harness>>

\* variant: the flush thread is started whatever the online status
ImmediateFlushPc_always(on) == "f_enum"

\* submit_booking: `if self.online:` start the thread of _try_sync_bookings
ImmediateFlushPc(on) == IF on THEN "f_enum" ELSE "none"

\* ShoppingScreen.confirm_purchase -> SyncManager.submit_booking
submit_booking ==
    /\ mode = "normal"
    /\ nextId < MaxBookings
    /\ save_pending_booking(nextId + 1)
    /\ Goto(<<"flush", nextId + 1>>, ImmediateFlushPc(online))
    /\ UNCHANGED <<cachedMembers, cachedProducts, lockConfig, envFile, proc, lret,
                   batch, fm, fp, obs, sseVars, lockVars, harness>>

\* IdleScreen key F -> SyncManager.force_refresh (composed with ForceThreads)
force_refresh ==
    /\ mode = "normal"
    /\ forceCount < MaxForceRefresh
    /\ forceCount' = forceCount + 1
    /\ Goto(<<"force", forceCount + 1>>, "r_members")
    /\ UNCHANGED <<store, envFile, mode, running, online, age, sseRunning,
                   restartScheduled, lret, batch, fm, fp, obs, sseVars, lockVars,
                   harness>>

\* KasseApp.on_stop -> SyncManager.stop, SSEListener.stop
stop ==
    /\ mode = "normal"
    /\ mode' = "stopped"
    /\ running' = FALSE
    /\ sseRunning' = FALSE
    /\ stopCalled' = TRUE
    /\ UNCHANGED <<store, envFile, online, age, restartScheduled, forceCount, locals,
                   hbResp, cyc, acked, dupSent, deprovCalls, wipes, restartRequests,
                   deprovClean, loopEnd, sseVars, lockVars, harness>>

\* the callback scheduled by _deprovision: os.execv replaces the process;
\* every thread and every in-memory field is gone, the files stay
Restart ==
    /\ restartScheduled
    /\ mode = "normal"
    /\ mode' = "boot"
    /\ running' = FALSE
    /\ online' = FALSE
    /\ age' = 0
    /\ sseRunning' = FALSE
    /\ restartScheduled' = FALSE
    /\ forceCount' = 0
    /\ pc' = NoThreads
    /\ lret' = "startup"
    /\ batch' = NoBatches
    /\ fm' = NoFetched
    /\ fp' = NoFetched
    /\ hbResp' = NoResponse
    /\ cyc' = NoCycle
    /\ loopEnd' = "none"
    /\ ssePc' = "none"
    /\ backoff' = INITIAL_BACKOFF
    /\ sseFails' = 0
    /\ sseConnected' = FALSE
    /\ sseLast' = "none"
    /\ sseDelay' = 0
    /\ sseEnd' = "none"
    /\ lastLock' = 0
    /\ appliedLock' = 0
    /\ swapReq' = << >>
    /\ UNCHANGED <<store, envFile, acked, dupSent, deprovCalls, wipes, restartRequests,
                   deprovClean, stopCalled, harness>>

\* the _swap callback of _hot_swap_lock, run by the Kivy clock: the old
\* driver is cleaned up and app.lock is built from the configuration
HotSwap ==
    /\ mode = "normal"
    /\ swapReq # << >>
    /\ appliedLock' = swapReq[1]
    /\ swapReq' = << >>
    /\ UNCHANGED <<store, envFile, proc, locals, obs, sseVars, lastLock, harness>>

(* --------------------------- specification ----------------------------- *)

\* the device before KasseApp.build: empty tables, configured or not, and on
\* a configured device one of `locks` as the lock configuration stored by an
\* earlier run
InitFrom(locks) ==
    /\ rows = {}
    /\ syncedRows = {}
    /\ nextId = 0
    /\ cachedMembers = {}
    /\ cachedProducts = {}
    /\ envFile \in BOOLEAN
    /\ lockConfig \in (IF envFile THEN locks ELSE {0})
    /\ mode = "boot"
    /\ running = FALSE
    /\ online = FALSE
    /\ age = 0
    /\ sseRunning = FALSE
    /\ restartScheduled = FALSE
    /\ forceCount = 0
    /\ pc = NoThreads
    /\ lret = "startup"
    /\ batch = NoBatches
    /\ fm = NoFetched
    /\ fp = NoFetched
    /\ hbResp = NoResponse
    /\ cyc = NoCycle
    /\ acked = {}
    /\ dupSent = {}
    /\ deprovCalls = 0
    /\ wipes = 0
    /\ restartRequests = 0
    /\ deprovClean = "none"
    /\ loopEnd = "none"
    /\ stopCalled = FALSE
    /\ ssePc = "none"
    /\ backoff = INITIAL_BACKOFF
    /\ sseFails = 0
    /\ sseConnected = FALSE
    /\ sseLast = "none"
    /\ sseDelay = 0
    /\ sseEnd = "none"
    /\ lastLock = 0
    /\ appliedLock = 0
    /\ swapReq = << >>
    /\ gwPc = "idle"
    /\ gwBookings = {}
    /\ gwResp = NoResponse
    /\ gwSent = FALSE
    /\ gwRet = "none"
    /\ txOp = "none"
    /\ txPc = "idle"
    /\ txArg = 0
    /\ txWork = Committed
    /\ txAdded = 0
    /\ txBefore = Committed
    /\ txOutcome = "none"
    /\ txError = "none"
    /\ readObs = NoRead
    /\ frConn = 1
    /\ frConnData = 0
    /\ frDropped = [type |-> "none", data |-> << >>]
    /\ frN = 0
    /\ frLine = NoLine
    /\ frType = "none"
    /\ frData = << >>
    /\ frOut = << >>
    /\ frAlive = TRUE
    /\ lockRequests = 0
    /\ lkDrivers = <<1>>
    /\ lkDrv = 1
    /\ lkReleased = {}
    /\ lkQueue = << >>
    /\ lkSwapPc = "idle"
    /\ lkSwapCfg = 0
    /\ lkPulse = [p \in PulseIds |-> NoPulse]
    /\ lkMutex = [d \in DriverIds |-> 0]
    /\ lkEvent = [d \in DriverIds |-> FALSE]
    /\ lkPosted = << >>
    /\ lkExecuted = << >>
    /\ lkMisuse = {}

\* a device without stored lock configuration
Init == InitFrom({0})

\* a device that may hold the lock configuration of an earlier run
ConfigInit == InitFrom(LockConfigs)

FlushStep(t) ==
    /\ FlushEnumerate(t) \/ FlushSend(t) \/ FlushMark(t)
    /\ UNCHANGED lockVars

RefreshStep(t) ==
    \/ /\ \/ RefreshMembers(t)
          \/ RefreshProducts(t)
          \/ RefreshReplaceMembers(t)
          \/ RefreshReplaceProducts(t)
       /\ UNCHANGED lockVars
    \/ RefreshConfig(t)

LoopStep ==
    /\ LoopTop \/ LoopHeartbeat \/ LoopAfterHeartbeat \/ LoopAgeCheck \/ LoopSleep
    /\ UNCHANGED lockVars

DeprovStep(t) ==
    /\ DeprovCall(t) \/ DeprovClear(t) \/ DeprovUnlink(t) \/ DeprovSchedule(t)
    /\ UNCHANGED lockVars

\* the SyncManager thread
SyncThread ==
    /\ LoopStep \/ FlushStep(LoopT) \/ RefreshStep(LoopT) \/ DeprovStep(LoopT)
    /\ UNCHANGED <<sseVars, harness>>

\* the threads started by submit_booking
FlushThreads == (\E t \in FlushTs : FlushStep(t)) /\ UNCHANGED <<sseVars, harness>>

\* the threads started by force_refresh
ForceThreads == (\E t \in ForceTs : RefreshStep(t)) /\ UNCHANGED <<sseVars, harness>>

Next ==
    \/ AppStart
    \/ submit_booking
    \/ Restart
    \/ SyncThread
    \/ FlushThreads

Spec == Init /\ [][Next]_vars

(* The SyncManager thread and the Kivy clock running the _swap callbacks of  *)
(* _hot_swap_lock in the main thread.                                        *)

ConfigNext ==
    \/ AppStart
    \/ HotSwap
    \/ Restart
    \/ SyncThread

ConfigSpec == ConfigInit /\ [][ConfigNext]_vars

(* _deprovision invoked a second time, by a task other than the loop (the   *)
(* only caller in the program is _loop, after a heartbeat AuthError).        *)

ExtDeprovision ==
    /\ mode = "normal"
    /\ pc[ExtT] = "none"
    /\ deprovCalls < 2
    /\ Goto(ExtT, "d_call")
    /\ UNCHANGED <<store, envFile, proc, lret, batch, fm, fp, obs, sseVars, lockVars,
                   harness>>

\* the thread of that second caller
ExtThread == DeprovStep(ExtT) /\ UNCHANGED <<sseVars, harness>>

DeprovNext ==
    \/ AppStart
    \/ submit_booking
    \/ Restart
    \/ SyncThread
    \/ ExtDeprovision
    \/ ExtThread

DeprovSpec == Init /\ [][DeprovNext]_vars

(* The process with its event channel: the SyncManager thread, the          *)
(* SSEListener thread, and the front end closing the application.           *)

SseNext ==
    \/ AppStart
    \/ stop
    \/ Restart
    \/ SyncThread
    \/ SseThread

SseSpec == Init /\ [][SseNext]_vars

(* The two daemon threads and the front end closing the application, on a    *)
(* configured device whose server has no lock configured and lets the SSEListener fail at most MaxStopFails times  *)
(* in a row.  Both threads are scheduled: a call or a sleep in flight       *)
(* returns.                                                                 *)

StopInit == Init /\ envFile

StopNext ==
    \/ AppStart
    \/ stop
    \/ SyncThread /\ lockConfig' = 0
    \/ SseThread /\ sseFails' <= MaxStopFails

StopSpec ==
    StopInit /\ [][StopNext]_vars /\ WF_vars(SyncThread /\ lockConfig' = 0)
        /\ WF_vars(SseThread /\ sseFails' <= MaxStopFails)

(* ApiClient.sync_bookings by itself: a caller passes any batch, the server  *)
(* answers anything.                                                         *)

GwCall ==
    /\ gwPc = "idle"
    /\ \E b \in SUBSET BookingIds, r \in Responses :
          /\ gwBookings' = b
          /\ gwResp' = r
    /\ gwPc' = "called"
    /\ UNCHANGED <<engine, txVars, frVars, lkVars, gwSent, gwRet>>

GwReturn ==
    /\ gwPc = "called"
    /\ gwSent' = sync_bookings_posts(gwBookings)
    /\ gwRet' = IF sync_bookings(gwBookings, gwResp) THEN "True" ELSE "False"
    /\ gwPc' = "returned"
    /\ UNCHANGED <<engine, txVars, frVars, lkVars, gwBookings, gwResp>>

GwDone ==
    /\ gwPc = "returned"
    /\ gwPc' = "idle"
    /\ gwBookings' = {}
    /\ gwResp' = NoResponse
    /\ gwSent' = FALSE
    /\ gwRet' = "none"
    /\ UNCHANGED <<engine, txVars, frVars, lkVars>>

GatewayNext == GwCall \/ GwReturn \/ GwDone

GatewaySpec == Init /\ [][GatewayNext]_vars

(* app/local_db.py by itself: one caller at a time runs a mutating function  *)
(* statement by statement inside get_session, while a reader looks members   *)
(* and products up in sessions of its own.                                   *)

notTx == <<nextId, lockConfig, envFile, proc, locals, obs, sseVars, lockVars, gwVars,
           frVars, lkVars>>

SetCommitted(c) ==
    /\ cachedMembers' = c.members
    /\ cachedProducts' = c.products
    /\ rows' = c.rows
    /\ syncedRows' = c.synced

\* the table a replace function works on
TxTable(op) == IF op = "replace_members" THEN "members" ELSE "products"

\* unique=True of rfid_token and barcode, and the primary key id
UniqueRows(S) == \A x, y \in S : x # y => (x[1] # y[1] /\ x[2] # y[2])

\* session.commit(): the pending rows are flushed, the constraints checked
FlushOk(w) == UniqueRows(w.members) /\ UniqueRows(w.products)

\* variant: what the session did so far stays in the database
AfterRollback_keep(committed, work) == work

\* get_session, `except Exception: session.rollback()`: the database is what
\* was committed before, the work of the session is discarded
AfterRollback(committed, work) == committed

\* variant: a session reads the uncommitted work of another session
ReadView_uncommitted(committed, work) == work

\* what a session that has written nothing sees of a table
ReadView(committed, work) == committed

\* a caller enters replace_member_cache, replace_product_cache,
\* save_pending_booking or mark_bookings_synced: `with get_session() as db:`
StoreCall ==
    /\ txPc = "idle"
    /\ \/ \E op \in {"replace_members", "replace_products"}, sn \in StoreSnapshots :
             /\ txOp' = op
             /\ txArg' = sn
             /\ txPc' = "delete"
       \/ /\ nextId < MaxBookings
          /\ txOp' = "save"
          /\ txArg' = nextId + 1
          /\ txPc' = "add"
       \/ \E ids \in (SUBSET BookingIds) \ {{}} :
             /\ txOp' = "mark"
             /\ txArg' = ids
             /\ txPc' = "update"
    /\ txWork' = Committed
    /\ txBefore' = Committed
    /\ txAdded' = 0
    /\ txOutcome' = "none"
    /\ txError' = "none"
    /\ readObs' = NoRead
    /\ UNCHANGED <<engine, gwVars, frVars, lkVars>>

\* db.query(CachedMember).delete() / db.query(CachedProduct).delete()
TxDelete ==
    /\ txPc = "delete"
    /\ txWork' = [txWork EXCEPT ![TxTable(txOp)] = {}]
    /\ txPc' = "add"
    /\ UNCHANGED <<engine, gwVars, frVars, lkVars, txOp, txArg, txAdded, txBefore, txOutcome, txError,
                   readObs>>

\* db.add(...): the next item of the list, or the new booking
TxAdd ==
    /\ txPc = "add"
    /\ IF txOp = "save"
       THEN /\ txWork' = [txWork EXCEPT !.rows = @ \cup {txArg}]
            /\ txAdded' = 1
            /\ txPc' = "commit"
       ELSE /\ txWork' = [txWork EXCEPT ![TxTable(txOp)] =
                                        @ \cup {SnapshotList(txArg)[txAdded + 1]}]
            /\ txAdded' = txAdded + 1
            /\ txPc' = IF txAdded' = Len(SnapshotList(txArg)) THEN "commit" ELSE "add"
    /\ UNCHANGED <<engine, gwVars, frVars, lkVars, txOp, txArg, txBefore, txOutcome, txError, readObs>>

\* db.query(PendingBooking).filter(id.in_(booking_ids)).update({"synced": True})
TxUpdate ==
    /\ txPc = "update"
    /\ txWork' = [txWork EXCEPT !.synced = @ \cup (txArg \cap txWork.rows)]
    /\ txPc' = "commit"
    /\ UNCHANGED <<engine, gwVars, frVars, lkVars, txOp, txArg, txAdded, txBefore, txOutcome, txError,
                   readObs>>

\* get_session after the body: session.commit(), or on its IntegrityError
\* session.rollback() and `raise`
TxCommit ==
    /\ txPc = "commit"
    /\ IF FlushOk(txWork)
       THEN /\ SetCommitted(txWork)
            /\ nextId' = IF txOp = "save" THEN txArg ELSE nextId
            /\ txOutcome' = "returned"
            /\ UNCHANGED txError
       ELSE /\ SetCommitted(AfterRollback(Committed, txWork))
            /\ txOutcome' = "raised"
            /\ txError' = "IntegrityError"
            /\ UNCHANGED nextId
    /\ txPc' = "idle"
    /\ UNCHANGED <<lockConfig, envFile, proc, locals, obs, sseVars, lockVars, gwVars, frVars,
                   lkVars, txOp, txArg,
                   txWork, txAdded, txBefore, readObs>>

\* get_session, any other exception of a statement or of the commit (disk,
\* lock timeout, a missing key of an item): session.rollback() and `raise`
TxFail ==
    /\ txPc \in {"delete", "add", "update", "commit"}
    /\ SetCommitted(AfterRollback(Committed, txWork))
    /\ txOutcome' = "raised"
    /\ txError' = "error"
    /\ txPc' = "idle"
    /\ UNCHANGED <<notTx, txOp, txArg, txWork, txAdded, txBefore, readObs>>

\* find_member_by_rfid, in a session of its own
find_member_by_rfid ==
    /\ readObs' = [table |-> "members", at |-> txPc,
                   seen |-> ReadView(cachedMembers, txWork.members)]
    /\ readObs' # readObs
    /\ UNCHANGED <<engine, gwVars, frVars, lkVars, txOp, txPc, txArg, txWork, txAdded, txBefore,
                   txOutcome, txError>>

\* find_product_by_barcode, in a session of its own
find_product_by_barcode ==
    /\ readObs' = [table |-> "products", at |-> txPc,
                   seen |-> ReadView(cachedProducts, txWork.products)]
    /\ readObs' # readObs
    /\ UNCHANGED <<engine, gwVars, frVars, lkVars, txOp, txPc, txArg, txWork, txAdded, txBefore,
                   txOutcome, txError>>

StoreNext ==
    \/ StoreCall
    \/ TxDelete
    \/ TxAdd
    \/ TxUpdate
    \/ TxCommit
    \/ TxFail
    \/ find_member_by_rfid
    \/ find_product_by_barcode

StoreSpec == Init /\ [][StoreNext]_vars

(* The line loop of one connection of the SSEListener by itself: the server  *)
(* sends any lines.                                                          *)

\* one iteration of `for line in response.iter_lines():`
ConsumeLine ==
    /\ frAlive
    /\ frN < MaxLines
    /\ frN' = frN + 1
    /\ \E line \in Lines :
          /\ frLine' = line
          /\ frConnData' = frConnData + (IF LineBranch(line) = "data" THEN 1 ELSE 0)
          /\ CASE LineBranch(line) = "event" ->
                    /\ frType' = line.val
                    /\ UNCHANGED <<frData, frOut, frAlive, lockRequests>>
               [] LineBranch(line) = "data" ->
                    /\ frData' = Append(frData, line.val)
                    /\ UNCHANGED <<frType, frOut, frAlive, lockRequests>>
               [] LineBranch(line) = "flush" /\ Dispatches(frType, frData) ->
                    /\ frOut' = Append(frOut, [type |-> frType, data |-> frData])
                    /\ lockRequests' = lockRequests
                            + (IF handle_event(frType, frData) = "requested" THEN 1 ELSE 0)
                    /\ frAlive' = (handle_event(frType, frData) # "raised")
                    /\ frType' = IF frAlive' THEN "none" ELSE frType
                    /\ frData' = IF frAlive' THEN << >> ELSE frData
               [] LineBranch(line) = "flush" /\ ~Dispatches(frType, frData) ->
                    /\ frType' = "none"
                    /\ frData' = << >>
                    /\ UNCHANGED <<frOut, frAlive, lockRequests>>
               [] OTHER ->
                    UNCHANGED <<frType, frData, frOut, frAlive, lockRequests>>
    /\ UNCHANGED <<frConn, frDropped>>
    /\ UNCHANGED <<engine, gwVars, txVars, lkVars>>

\* the connection ends (the server closes it, an exception leaves the line
\* loop) and SSEListener._loop calls _connect_and_consume again: the locals
\* of the call before are gone, the new call starts with its own
Reconnect ==
    /\ frConn < MaxConns
    /\ frConn' = frConn + 1
    /\ frDropped' = [type |-> frType, data |-> frData]
    /\ frType' = NewParser(frType, frData).type
    /\ frData' = NewParser(frType, frData).data
    /\ frConnData' = 0
    /\ frLine' = NoLine
    /\ frAlive' = TRUE
    /\ UNCHANGED <<frN, frOut, lockRequests>>
    /\ UNCHANGED <<engine, gwVars, txVars, lkVars>>

FramingNext == ConsumeLine \/ Reconnect

FramingSpec == Init /\ [][FramingNext]_vars


(* ------------- the lock drivers: app/hardware/lock.py ------------------ *)
(* KasseApp.build has constructed driver 1 from configuration 1.  The Kivy *)
(* main thread calls open() and close() of app.lock and runs the _swap     *)
(* callbacks; every open() of a driver other than the NoopLock starts a    *)
(* LockPulse thread.                                                       *)

\* variant: _pulse does not take Lock._lock
MutexFree_unlocked(m, d) == TRUE

\* `with self._lock:` can be entered
MutexFree(m, d) == m[d] = 0

\* try: self._activate(); self._close_event.wait(...) finally: self._deactivate()
AfterActivatePc(outcome) == IF outcome = "ok" THEN "active" ELSE "deact"

\* variant: _swap does not call old.cleanup()
ReleasedBySwap_none(old, released) == released

\* _swap: old = app.lock; old.cleanup()
ReleasedBySwap(old, released) == released \cup {old}

\* a call of _activate or _deactivate on driver d is recorded when cleanup()
\* of d was called before
Misuse(d, call) == IF d \in lkReleased THEN lkMisuse \cup {<<d, call>>} ELSE lkMisuse

\* SyncManager._hot_swap_lock: Clock.schedule_once(_swap, 0)
PostSwap ==
    /\ Len(lkPosted) < MaxSwaps
    /\ \E cfg \in LockConfigs :
          /\ lkQueue' = Append(lkQueue, cfg)
          /\ lkPosted' = Append(lkPosted, cfg)
    /\ UNCHANGED <<lkDrivers, lkDrv, lkReleased, lkSwapPc, lkSwapCfg, lkPulse, lkMutex,
                   lkEvent, lkExecuted, lkMisuse>>
    /\ UNCHANGED <<engine, gwVars, txVars, frVars>>

\* the Kivy clock calls the _swap scheduled first: old = app.lock; old.cleanup()
SwapCleanup ==
    /\ lkSwapPc = "idle"
    /\ lkQueue # << >>
    /\ lkSwapCfg' = Head(lkQueue)
    /\ lkQueue' = Tail(lkQueue)
    /\ lkExecuted' = Append(lkExecuted, Head(lkQueue))
    /\ lkReleased' = ReleasedBySwap(lkDrv, lkReleased)
    /\ lkSwapPc' = "cleaned"
    /\ UNCHANGED <<lkDrivers, lkDrv, lkPulse, lkMutex, lkEvent, lkPosted, lkMisuse>>
    /\ UNCHANGED <<engine, gwVars, txVars, frVars>>

\* _swap: app.lock = create_lock(...), which raises ValueError for a gpio
\* lock without pin and a shelly or tasmota lock without host, as the
\* constructor of GpioLock may; create_lock(lock_type=None) is a NoopLock
SwapCreate ==
    /\ lkSwapPc = "cleaned"
    /\ \/ /\ lkDrivers' = Append(lkDrivers, lkSwapCfg)
          /\ lkDrv' = Len(lkDrivers) + 1
       \/ /\ lkSwapCfg # 0
          /\ UNCHANGED <<lkDrivers, lkDrv>>
    /\ lkSwapPc' = "idle"
    /\ UNCHANGED <<lkReleased, lkQueue, lkSwapCfg, lkPulse, lkMutex, lkEvent, lkPosted,
                   lkExecuted, lkMisuse>>
    /\ UNCHANGED <<engine, gwVars, txVars, frVars>>

\* app.lock.open() in the main thread: self._close_event.clear() and the
\* start of a LockPulse thread; NoopLock.open() does nothing
LockOpen ==
    /\ lkSwapPc = "idle"
    /\ lkDrivers[lkDrv] # 0
    /\ \E p \in PulseIds :
          /\ lkPulse[p].pc = "none"
          /\ \A q \in PulseIds : q < p => lkPulse[q].pc # "none"
          /\ lkPulse' = [lkPulse EXCEPT ![p] = [drv |-> lkDrv, pc |-> "start",
                                                calls |-> << >>]]
    /\ lkEvent' = [lkEvent EXCEPT ![lkDrv] = FALSE]
    /\ UNCHANGED <<lkDrivers, lkDrv, lkReleased, lkQueue, lkSwapPc, lkSwapCfg, lkMutex,
                   lkPosted, lkExecuted, lkMisuse>>
    /\ UNCHANGED <<engine, gwVars, txVars, frVars>>

\* app.lock.close() in the main thread: self._close_event.set()
LockClose ==
    /\ lkSwapPc = "idle"
    /\ lkDrivers[lkDrv] # 0
    /\ lkEvent' = [lkEvent EXCEPT ![lkDrv] = TRUE]
    /\ UNCHANGED <<lkDrivers, lkDrv, lkReleased, lkQueue, lkSwapPc, lkSwapCfg, lkPulse,
                   lkMutex, lkPosted, lkExecuted, lkMisuse>>
    /\ UNCHANGED <<engine, gwVars, txVars, frVars>>

\* _pulse: `with self._lock:`
PulseAcquire(p) ==
    /\ lkPulse[p].pc = "start"
    /\ MutexFree(lkMutex, lkPulse[p].drv)
    /\ lkMutex' = [lkMutex EXCEPT ![lkPulse[p].drv] = p]
    /\ lkPulse' = [lkPulse EXCEPT ![p].pc = "held"]
    /\ UNCHANGED <<lkDrivers, lkDrv, lkReleased, lkQueue, lkSwapPc, lkSwapCfg, lkEvent,
                   lkPosted, lkExecuted, lkMisuse>>

\* _pulse: self._activate(), which returns or raises
PulseActivate(p) ==
    /\ lkPulse[p].pc = "held"
    /\ \E outcome \in {"ok", "raised"} :
          /\ lkPulse' = [lkPulse EXCEPT ![p].pc = AfterActivatePc(outcome),
                                        ![p].calls = Append(@, "activate")]
    /\ lkMisuse' = Misuse(lkPulse[p].drv, "activate")
    /\ UNCHANGED <<lkDrivers, lkDrv, lkReleased, lkQueue, lkSwapPc, lkSwapCfg, lkMutex,
                   lkEvent, lkPosted, lkExecuted>>

\* _pulse: self._close_event.wait(timeout=self._duration) returns, at once
\* when the event is set and after the duration else
PulseWait(p) ==
    /\ lkPulse[p].pc = "active"
    /\ lkPulse' = [lkPulse EXCEPT ![p].pc = "deact"]
    /\ UNCHANGED <<lkDrivers, lkDrv, lkReleased, lkQueue, lkSwapPc, lkSwapCfg, lkMutex,
                   lkEvent, lkPosted, lkExecuted, lkMisuse>>

\* _pulse: `finally: self._deactivate()`, then Lock._lock is released
\* whether _deactivate() returned or raised
PulseDeactivate(p) ==
    /\ lkPulse[p].pc = "deact"
    /\ lkPulse' = [lkPulse EXCEPT ![p].pc = "done", ![p].calls = Append(@, "deactivate")]
    /\ lkMutex' = [lkMutex EXCEPT ![lkPulse[p].drv] = 0]
    /\ lkMisuse' = Misuse(lkPulse[p].drv, "deactivate")
    /\ UNCHANGED <<lkDrivers, lkDrv, lkReleased, lkQueue, lkSwapPc, lkSwapCfg, lkEvent,
                   lkPosted, lkExecuted>>

\* the LockPulse threads
PulseThreads ==
    /\ \E p \in PulseIds :
          PulseAcquire(p) \/ PulseActivate(p) \/ PulseWait(p) \/ PulseDeactivate(p)
    /\ UNCHANGED <<engine, gwVars, txVars, frVars>>

\* one driver with its open() and close() calls and its LockPulse threads
PulseNext ==
    \/ LockOpen
    \/ LockClose
    \/ PulseThreads

PulseSpec == Init /\ [][PulseNext]_vars /\ WF_vars(PulseThreads)

\* the drivers with the hot-swap of SyncManager._hot_swap_lock
LockNext ==
    \/ PostSwap
    \/ SwapCleanup
    \/ SwapCreate
    \/ LockOpen
    \/ LockClose
    \/ PulseThreads

LockSpec == Init /\ [][LockNext]_vars


(* ------------------------------- claims -------------------------------- *)

FlushPcs == {"f_enum", "f_send", "f_mark"}
RefreshPcs == {"r_members", "r_products", "r_repl_m", "r_repl_p", "r_config"}
DeprovPcs == {"d_call", "d_clear", "d_unlink", "d_sched"}

\* C1: a booking that is already marked delivered is never contained in a
\* batch that is sent to sync_bookings afterwards, whatever the interleaving
\* of the loop's flush with the flushes started by submit_booking.
C1_NoResendAfterDelivered == dupSent = {}

\* C2: a booking is marked delivered only if a sync_bookings call whose batch
\* contained it returned True before, and the flag of a stored booking never
\* goes back from True to False.
C2_DeliveredOnlyAfterAck ==
    /\ [](syncedRows \subseteq acked)
    /\ [][\A b \in syncedRows : b \in rows' => b \in syncedRows']_vars

\* C2 witness: a stored booking is marked delivered.
C2_Witness == \E b \in rows : b \in syncedRows

C4_AuthShortCircuit ==
    /\ deprovCalls <= 1
    /\ cyc.hb = "auth" =>
          /\ ~cyc.flushed
          /\ ~cyc.refreshed
          /\ pc[LoopT] \in {"l_hb_done"} \cup DeprovPcs \cup {"returned", "l_sleep"}
          /\ pc[LoopT] \notin {"l_hb_done", "d_call"} => deprovCalls = 1
    /\ deprovCalls = 1 =>
          /\ ~running
          /\ pc[LoopT] \in {"d_clear", "d_unlink", "d_sched", "returned", "l_sleep",
                            "l_top", "none"}

\* C4 witness: the heartbeat of the cycle raised AuthError, _deprovision ran
\* to its end and the loop thread has returned.
C4_Witness ==
    /\ cyc.hb = "auth"
    /\ pc[LoopT] = "returned"
    /\ deprovCalls = 1
    /\ restartScheduled

\* C5: heartbeat() raises AuthError for every response with status 401, 403
\* or 404 whatever its body, succeeds for 2xx, and raises another error for
\* every other outcome.
C5_HeartbeatClassification ==
    pc[LoopT] = "l_hb_done" =>
        /\ (hbResp.kind = "http" /\ hbResp.status \in {401, 403, 404})
              => heartbeat(hbResp) = "AuthError"
        /\ IsSuccess(hbResp) => heartbeat(hbResp) = "ok"
        /\ (hbResp.kind # "http" \/ hbResp.status \in {400, 500})
              => heartbeat(hbResp) \notin {"ok", "AuthError"}

\* C6 as claimed: whenever the loop thread is inside a booking flush or a
\* cache refresh, the probe and the heartbeat of the current cycle succeeded.
C6_FlushAndRefreshAfterHeartbeat ==
    pc[LoopT] \in FlushPcs \cup RefreshPcs => cyc.probe = "ok" /\ cyc.hb = "ok"

\* C6 as amended: whenever the loop thread is inside a booking flush, or
\* inside a cache refresh other than the startup refresh it performs before
\* its first cycle, the probe and the heartbeat of the current cycle succeeded.
C6_InCycleFlushAndRefreshAfterHeartbeat ==
    (pc[LoopT] \in FlushPcs \/ (pc[LoopT] \in RefreshPcs /\ lret = "cycle"))
        => cyc.probe = "ok" /\ cyc.hb = "ok"

\* C6 witness: the loop thread is inside the cache refresh of a cycle, after
\* the flush of that cycle.
C6_Witness ==
    /\ pc[LoopT] = "r_config"
    /\ lret = "cycle"
    /\ cyc.flushed
    /\ cyc.refreshed

\* C7: the loop thread ends only by an AuthError of the heartbeat or by the
\* stop flag; no other failure, a local-store failure included, ends it.
C7_LoopEndsOnlyByAuthOrStop ==
    /\ loopEnd \in {"none", "auth", "stop"}
    /\ pc[LoopT] # "crashed"

\* C8, in the form a finite run refutes: as long as the device is not
\* deprovisioned, a booking stored undelivered still has the periodic loop
\* alive to flush it (without it, no later success of probe, heartbeat and
\* sync_bookings can deliver the booking).
C8_UndeliveredBookingHasLoop ==
    (mode = "normal" /\ deprovCalls = 0 /\ get_pending_bookings # {})
        => pc[LoopT] \notin {"crashed", "returned", "none"}

\* C9: when _deprovision is invoked twice, the wipe of the local state and
\* the restart request are performed exactly once.
C9_WipeAndRestartOnce == wipes <= 1 /\ restartRequests <= 1

\* C10: when _deprovision returns, the caches, the booking queue and the
\* lock configuration are empty and .env is gone; after the restart it
\* requested the application is in setup mode with no SyncManager thread and
\* no SSEListener running.
C10_CleanAfterDeprovision ==
    /\ deprovClean # "dirty"
    /\ (restartRequests > 0 /\ ~restartScheduled) =>
          /\ mode \in {"boot", "setup"}
          /\ ~is_configured
          /\ ~running
          /\ ~sseRunning
          /\ pc = NoThreads

\* _deprovision has been invoked in this process and the restart it
\* requested has not happened yet
DeprovInvoked == mode = "normal" /\ ~running

\* C11: from the invocation of _deprovision until the restart, the loop of
\* the SyncManager starts no network request and the loop of the SSEListener
\* starts no connection attempt and no backoff wait.
C11_NoActivityAfterDeprovision ==
    [][DeprovInvoked =>
          ~ \/ SseTop /\ ssePc' = "s_connect"
            \/ SseSleep
            \/ LoopTop /\ pc'[LoopT] # "returned"
            \/ LoopHeartbeat
            \/ FlushSend(LoopT)
            \/ RefreshMembers(LoopT)
            \/ RefreshProducts(LoopT)
            \/ RefreshConfig(LoopT)]_vars

\* C12: after N consecutive failed connection attempts counted from the start
\* of the SSEListener, with no connection in between, the delay slept before
\* the next attempt is min(1 * 2^(N-1), 30) seconds.
C12_BackoffBounds ==
    (sseDelay # 0 /\ ~sseConnected) =>
        /\ sseFails >= 1
        /\ sseDelay = Min(INITIAL_BACKOFF * Pow2(sseFails - 1), MAX_BACKOFF)

\* C12 witness: as many failures as the model counts, none followed by a
\* connection, and the delay slept after the last one is the ceiling.
C12_Witness ==
    /\ ~sseConnected
    /\ sseFails = MaxFails
    /\ sseDelay = MAX_BACKOFF
    /\ ssePc = "s_top"

\* C13: the delay slept after a connection that was opened has ended, by a
\* clean close or by a read error, is the initial delay, and so is the delay
\* slept after the first failed attempt that follows a connection.
C13_ConnectionResetsBackoff ==
    (sseDelay # 0 /\ sseConnected) =>
        /\ sseLast \in {"closed", "read_error"} => sseDelay = INITIAL_BACKOFF
        /\ (sseLast = "failed" /\ sseFails = 1) => sseDelay = INITIAL_BACKOFF

\* C14: after a connection attempt answered 401, 403 or 404 the SSEListener
\* thread has returned with _running False, and sleeps and connects no more;
\* after any other failure, while _running is True, the thread is on its way
\* to the sleep and the next attempt.
C14_AuthStopsOthersRetry ==
    /\ [](sseEnd = "auth" => ssePc = "returned" /\ ~sseRunning)
    /\ []((sseLast \in {"failed", "read_error"} /\ sseRunning)
            => ssePc \in {"s_check", "s_sleep", "s_top", "s_connect"})
    /\ [][sseEnd = "auth" => ~(SseConnect \/ SseSleep)]_vars
    /\ [][(sseRunning /\ sseRunning' /\ mode' = mode /\ ssePc' # ssePc) =>
             /\ (ssePc = "s_check" /\ sseLast # "auth") => ssePc' = "s_sleep"
             /\ ssePc = "s_sleep" => ssePc' = "s_top"
             /\ ssePc = "s_top" => ssePc' = "s_connect"]_vars

\* C14 witness: the SSEListener failed, retried, was then answered with an
\* authorization failure and has returned, while the SyncManager still runs.
C14_Witness ==
    /\ sseEnd = "auth"
    /\ ssePc = "returned"
    /\ sseFails >= 2
    /\ running

\* C15: once the SSEListener has stopped on a 401, 403 or 404 of the event
\* stream, _deprovision has been invoked (SyncManager._running is False).
C15_StreamAuthDeprovisions ==
    (sseEnd = "auth" /\ mode = "normal") => DeprovInvoked

\* C16: the batch of a flush is the set of undelivered bookings at its
\* enumeration and never grows afterwards; a booking appended later is in no
\* batch and not marked delivered by the append; a flush marks delivered only
\* bookings of its own batch, after that batch was acknowledged.
C16_LaterBookingsNotInBatch ==
    /\ [][\A t \in DOMAIN batch :
            batch'[t] # batch[t] =>
                \/ batch'[t] = {}
                \/ pc[t] = "f_enum" /\ batch'[t] = get_pending_bookings]_vars
    /\ [][nextId' # nextId =>
            /\ batch' = batch
            /\ \A t \in DOMAIN batch : nextId' \notin batch'[t]
            /\ nextId' \in rows' \ syncedRows']_vars
    /\ [][\A b \in syncedRows' \ syncedRows :
            \E t \in DOMAIN batch :
                pc[t] = "f_mark" /\ pc'[t] # "f_mark" /\ b \in batch[t] /\ b \in acked]_vars

\* C16 witness: a flush whose batch was acknowledged is about to mark it, and
\* a booking appended after its enumeration is stored undelivered outside
\* the batch.
C16_Witness ==
    \E t \in DOMAIN batch :
        /\ pc[t] = "f_mark"
        /\ batch[t] # {}
        /\ get_pending_bookings \ batch[t] # {}

\* C17: the step of submit_booking stores the new booking undelivered, starts
\* the thread of the immediate flush exactly when online is True, moves no
\* other thread and sends nothing; no flush thread of a booking exists before
\* the booking was stored.
C17_SubmitStoresThenFlushesIfOnline ==
    /\ [](\A i \in BookingIds : pc[<<"flush", i>>] # "none" => i <= nextId)
    /\ [][nextId' # nextId =>
            /\ nextId' \notin rows
            /\ nextId' \in rows' \ syncedRows'
            /\ pc'[<<"flush", nextId'>>] = (IF online THEN "f_enum" ELSE "none")
            /\ \A t \in Threads \ {<<"flush", nextId'>>} : pc'[t] = pc[t]
            /\ acked' = acked
            /\ dupSent' = dupSent]_vars

\* C17 witness: the booking just stored is undelivered and, the device being
\* online, the thread of its immediate flush has been started.
C17_Witness ==
    /\ online
    /\ nextId \in rows \ syncedRows
    /\ nextId \in BookingIds
    /\ pc[<<"flush", nextId>>] = "f_enum"
    /\ nextId \notin acked

\* C18: sync_bookings returns True for an empty batch without sending the
\* POST; for any other batch it sends the POST and returns True exactly when
\* the answer has status 200 or 201, False for every other status and for
\* every network error.
C18_SuccessOnlyOn200Or201 ==
    gwPc = "returned" =>
        /\ gwRet \in {"True", "False"}
        /\ gwBookings = {} => (gwRet = "True" /\ ~gwSent)
        /\ gwBookings # {} =>
              /\ gwSent
              /\ gwRet = "True" <=> (gwResp.kind = "http" /\ gwResp.status \in {200, 201})

\* what a replace function that is running, or ran last, puts into a table
TxNew(table) ==
    IF txOp \in {"replace_members", "replace_products"} /\ TxTable(txOp) = table
    THEN {SnapshotRows(txArg)} ELSE {}

\* C19: a lookup that runs while replace_member_cache or replace_product_cache
\* is between its delete and its commit sees the complete table of before the
\* call or the complete new collection, never the emptied or partly filled
\* table.
C19_ReaderSeesOldOrNew ==
    /\ readObs.table = "members" =>
          readObs.seen \in {txBefore.members} \cup TxNew("members")
    /\ readObs.table = "products" =>
          readObs.seen \in {txBefore.products} \cup TxNew("products")
    /\ (readObs.at \in {"delete", "add", "commit"} /\ readObs.table = "members")
          => readObs.seen = txBefore.members
    /\ (readObs.at \in {"delete", "add", "commit"} /\ readObs.table = "products")
          => readObs.seen = txBefore.products

\* C19 witness: replace_member_cache has deleted the old members and added
\* one of the new ones, and a lookup made at that point saw the old table.
C19_Witness ==
    /\ txOp = "replace_members"
    /\ txPc = "add"
    /\ txAdded = 1
    /\ txBefore.members = SnapshotRows(1)
    /\ txArg = 2
    /\ readObs.table = "members"
    /\ readObs.at = "add"
    /\ readObs.seen = SnapshotRows(1)

\* C20: while a mutation of local_db has not committed the database is as it
\* was before the call; a mutation that fails raises to its caller and leaves
\* the database as it was before the call; a call that returns has not failed.
C20_FailedMutationLeavesStore ==
    /\ txPc # "idle" => Committed = txBefore
    /\ txError # "none" => (txOutcome = "raised" /\ Committed = txBefore)
    /\ txOutcome = "returned" => txError = "none"
    /\ (txPc = "idle" /\ txOp # "none") => txOutcome \in {"returned", "raised"}

\* C20 witness: replace_member_cache was given two members with the same
\* rfid_token, its commit raised IntegrityError, and the members stored
\* before are still there.
C20_Witness ==
    /\ txOp = "replace_members"
    /\ txArg = 3
    /\ txError = "IntegrityError"
    /\ txOutcome = "raised"
    /\ txPc = "idle"
    /\ cachedMembers = SnapshotRows(1)

\* C21: when a refresh replaces the members while its products fetch has
\* failed (`products` is None), the member cache becomes the fetched members,
\* replace_product_cache is not called and the product cache stays as it was.
C21_PartialRefreshKeepsProducts ==
    [][\A t \in DOMAIN fp :
          (pc[t] = "r_repl_m" /\ fp[t] = 0 /\ pc'[t] # "r_repl_m" /\ mode' = mode) =>
              /\ cachedProducts' = cachedProducts
              /\ pc'[t] # "r_repl_p"
              /\ pc'[t] = "r_config" => cachedMembers' = SnapshotRows(fm[t])]_vars

\* C21 witness: the refresh has passed the replacements with the members
\* stored and the products, whose fetch failed, still as they were (none).
C21_Witness ==
    /\ pc[LoopT] = "r_config"
    /\ cachedMembers = SnapshotRows(1)
    /\ cachedProducts = {}
    /\ wipes = 0

\* C23: no two threads are at the same time about to write the same field of
\* the SyncManager: at most one thread is in the step of _try_sync_bookings
\* that marks its batch and writes last_sync_at.
C23_SingleWriterOfStatusFields ==
    \A t1, t2 \in DOMAIN batch :
        (pc[t1] = "f_mark" /\ pc[t2] = "f_mark") => t1 = t2

\* C24: is_online is True exactly for an answer with status 200; in a cycle
\* whose probe failed online is False and the loop is at its sleep with no
\* heartbeat, flush or refresh done; the step of the failed probe changes
\* neither the local store nor .env and invokes no _deprovision.
C24_ProbeFailureSkipsCycle ==
    /\ [](\A r \in Responses :
            /\ is_online(r) \in BOOLEAN
            /\ is_online(r) <=> (r.kind = "http" /\ r.status = 200))
    /\ [](cyc.probe = "fail" =>
            /\ ~online
            /\ pc[LoopT] = "l_sleep"
            /\ cyc.hb = "none"
            /\ ~cyc.flushed
            /\ ~cyc.refreshed)
    /\ [][(pc[LoopT] = "l_top" /\ pc'[LoopT] = "l_sleep") =>
            /\ ~online'
            /\ UNCHANGED <<store, envFile>>
            /\ deprovCalls' = deprovCalls]_vars

\* C24 witness: the probe of the cycle failed while a booking is undelivered
\* and the refresh is due, and the loop is at its sleep.
C24_Witness ==
    /\ cyc.probe = "fail"
    /\ pc[LoopT] = "l_sleep"
    /\ get_pending_bookings # {}
    /\ age > cache_refresh_interval_seconds

ProductsMissing == cachedMembers # {} /\ cachedProducts = {} /\ wipes = 0

\* C26: after a refresh whose products fetch failed, a cycle whose probe and
\* heartbeat succeeded and whose flush returned starts a refresh.
C26_FailedFetchRetriedNextCycle ==
    [][(ProductsMissing /\ pc[LoopT] = "l_age" /\ pc'[LoopT] # "l_age" /\ mode' = mode)
          => pc'[LoopT] = "r_members"]_vars

WipedAwaitingRestart ==
    mode = "normal" /\ (restartScheduled \/ pc[LoopT] \in {"d_unlink", "d_sched"})

\* C30: between the wipe of _deprovision and the restart no step writes to
\* the local store, and the store is empty when the process restarts.
C30_NoWriteBetweenWipeAndRestart ==
    [][WipedAwaitingRestart =>
          /\ mode' = "normal" =>
                UNCHANGED <<rows, syncedRows, cachedMembers, cachedProducts, lockConfig>>
          /\ mode' = "boot" => StoreEmpty]_vars

C28_LockRequestIffLockOpenJson ==
    [][Len(frOut') = Len(frOut) + 1 =>
          LET ev == frOut'[Len(frOut')] IN
              /\ lockRequests' = lockRequests
                    + (IF ev.type = "lock:open" /\ JsonKind(ev.data) # "invalid" THEN 1 ELSE 0)
              /\ frAlive']_vars

\* the configuration the active driver is built from once the scheduled
\* _swap callbacks have run
EffectiveLock == IF swapReq # << >> THEN swapReq[1] ELSE appliedLock

\* C22: a config refresh schedules a hot-swap only with a lock configuration
\* that differs from the one applied to the active driver, and a config
\* refresh that fetched a lock configuration differing from the applied one
\* schedules a hot-swap with it.
C22_HotSwapIffChanged ==
    /\ [][(mode' = mode /\ swapReq' # swapReq /\ swapReq' # << >>)
            => swapReq'[1] # EffectiveLock]_vars
    /\ [][((\E t \in DOMAIN pc : pc[t] = "r_config" /\ pc'[t] # "r_config")
              /\ lockConfig' # lockConfig /\ lockConfig' # EffectiveLock)
            => swapReq' = <<lockConfig'>>]_vars

\* C33: a comment line and a line that matches no branch leave the pending
\* event type and the data lines as they are and dispatch nothing; an
\* "event: " line replaces the pending type only, a "data: " line appends to
\* the data lines only.
C33_OtherLinesLeaveParser ==
    [][(frN' = frN + 1) =>
          /\ frLine'.kind \in {"comment", "other"}
                => UNCHANGED <<frType, frData, frOut, frAlive, lockRequests>>
          /\ frLine'.kind = "event"
                => /\ frType' = frLine'.val
                   /\ UNCHANGED <<frData, frOut, frAlive, lockRequests>>
          /\ frLine'.kind = "data"
                => /\ frData' = Append(frData, frLine'.val)
                   /\ UNCHANGED <<frType, frOut, frAlive, lockRequests>>]_vars

\* C33 witness: with a type and a data line pending, a line that matches no
\* branch was received and the two are still pending.
C33_Witness ==
    /\ frLine.kind = "other"
    /\ frType = "lock:open"
    /\ frData = <<"{}">>
    /\ frOut = << >>

\* C38: a new call of _connect_and_consume starts with no pending type and
\* no data lines and dispatches nothing of what was pending when the call
\* before ended; every event dispatched carries no more data lines than the
\* call it is dispatched in has received.
C38_ParserStatePerConnection ==
    /\ [][(frConn' = frConn + 1) =>
             /\ frType' = "none"
             /\ frData' = << >>
             /\ frOut' = frOut
             /\ lockRequests' = lockRequests]_vars
    /\ [][(frOut' # frOut) =>
             /\ Len(frOut') = Len(frOut) + 1
             /\ Len(frOut'[Len(frOut')].data) <= frConnData]_vars

\* C38 witness: the first connection ended with a data line pending; the
\* second one received a complete event, which was dispatched
\* with its own type and data line only.
C38_Witness ==
    /\ frConn = 2
    /\ frDropped = [type |-> "none", data |-> <<"x">>]
    /\ frOut = << [type |-> "other", data |-> <<"{}">>] >>

\* C34: once a config refresh has stored the fetched lock configuration and
\* no _swap callback is left on the Kivy clock, the active driver is built
\* from the stored lock configuration.
C34_DriverFollowsStoredConfig ==
    [][((\E t \in DOMAIN pc : pc[t] = "r_config" /\ pc'[t] # "r_config")
           /\ mode' = mode /\ lockConfig' # lockConfig /\ swapReq' = << >>)
         => appliedLock' = lockConfig']_vars

\* C35: a heartbeat that fails with another error than AuthError sends the
\* loop to its sleep with the online status still true and without a call of
\* _deprovision, and the cycle has then neither flushed nor refreshed.
C35_HeartbeatErrorSkipsCycle ==
    /\ [][(pc[LoopT] = "l_hb_done" /\ pc'[LoopT] # "l_hb_done" /\ mode' = mode
              /\ HbClass(heartbeat(hbResp)) = "error")
            => /\ pc'[LoopT] = "l_sleep"
               /\ online'
               /\ deprovCalls' = deprovCalls]_vars
    /\ [][(pc[LoopT] = "l_sleep" /\ pc'[LoopT] # "l_sleep" /\ mode' = mode
              /\ cyc.hb = "error")
            => /\ pc'[LoopT] = "l_top"
               /\ online
               /\ ~cyc.flushed
               /\ ~cyc.refreshed
               /\ deprovCalls' = deprovCalls]_vars

\* C35 witness: the loop sleeps in a cycle whose probe succeeded and whose
\* heartbeat failed with another error than AuthError.
C35_Witness ==
    /\ pc[LoopT] = "l_sleep"
    /\ cyc.probe = "ok"
    /\ cyc.hb = "error"
    /\ online
    /\ deprovCalls = 0

\* C36: while the member cache is empty (no refresh of this process has
\* stored members), a cycle whose probe and heartbeat succeeded and whose
\* flush returned calls _try_refresh_cache.
C36_RefreshUntilFirstSuccess ==
    [][(pc[LoopT] = "l_age" /\ pc'[LoopT] # "l_age" /\ mode' = mode
           /\ cachedMembers = {})
         => pc'[LoopT] = "r_members"]_vars

\* C37: a refresh whose fetch_members() failed returns at once: the thread is
\* at no later step of the refresh, the caches, the lock configuration, the
\* scheduled _swap callbacks and the age of the last refresh are unchanged.
C37_MembersFailureEndsRefresh ==
    [][\A t \in DOMAIN pc :
          (pc[t] = "r_members" /\ pc'[t] # "r_members" /\ mode' = mode /\ fm'[t] = 0)
            => /\ pc'[t] \notin RefreshPcs
               /\ UNCHANGED <<cachedMembers, cachedProducts, lockConfig, lockVars, age>>]_vars

\* C37 witness: a refresh was due in this cycle (the age is over the
\* interval), it ran and ended, and the loop sleeps with the age still over
\* the interval, the member cache still empty and no _swap scheduled.
C37_Witness ==
    /\ pc[LoopT] = "l_sleep"
    /\ cyc.refreshed
    /\ age > cache_refresh_interval_seconds
    /\ cachedMembers = {}
    /\ cachedProducts = {}
    /\ swapReq = << >>
    /\ lastLock = 0

\* LockPulse threads of driver d that have called _activate() and not yet
\* _deactivate()
Pulsing(d) == {p \in PulseIds : lkPulse[p].drv = d /\ lkPulse[p].calls = <<"activate">>}

\* C40: of every driver at most one pulse is between its _activate() and its
\* _deactivate(), and every pulse that has called _activate() calls
\* _deactivate() later, whether _activate() raised and whether close() was
\* called.
C40_PulsesSerializedAndEnded ==
    /\ [](\A d \in DriverIds : Cardinality(Pulsing(d)) <= 1)
    /\ \A p \in PulseIds :
          (lkPulse[p].calls = <<"activate">>)
             ~> (lkPulse[p].calls = <<"activate", "deactivate">>)

\* C40 witness: MaxPulses pulses of driver 1 have each called _activate()
\* and then _deactivate(), with close() called after the latest open().
C40_Witness ==
    /\ \A p \in PulseIds : lkPulse[p] = [drv |-> 1, pc |-> "done",
                                         calls |-> <<"activate", "deactivate">>]
    /\ lkEvent[1]

\* C39: no _activate() and no _deactivate() is called on a driver after its
\* cleanup(), and when no _swap is running app.lock is not a driver whose
\* cleanup() was called.
C39_NoReleasedDriverUsed ==
    /\ lkMisuse = {}
    /\ lkSwapPc = "idle" => lkDrv \notin lkReleased

\* C31: posting a hot-swap changes no driver; app.lock changes only in a
\* _swap, from a driver whose cleanup() was called to a newly constructed
\* one, and cleanup() is called in a _swap only; the _swap callbacks run in
\* the order they were posted.
C31_SwapHandOff ==
    /\ [][(lkPosted' # lkPosted) => UNCHANGED <<lkDrivers, lkDrv, lkReleased>>]_vars
    /\ [][(lkDrv' # lkDrv) =>
             /\ lkSwapPc = "cleaned"
             /\ lkDrv \in lkReleased
             /\ lkDrv' = Len(lkDrivers')
             /\ lkDrivers' = Append(lkDrivers, lkSwapCfg)]_vars
    /\ [][(lkReleased' # lkReleased) =>
             /\ lkSwapPc = "idle" /\ lkSwapPc' = "cleaned"
             /\ lkReleased' = lkReleased \cup {lkDrv}]_vars
    /\ [](/\ Len(lkExecuted) <= Len(lkPosted)
          /\ lkExecuted = SubSeq(lkPosted, 1, Len(lkExecuted)))

\* C31 witness: two hot-swaps with different configurations were posted and
\* both _swap callbacks have run in that order, each constructing a driver
\* after the cleanup() of the one before.
C31_Witness ==
    /\ lkPosted = <<0, 1>>
    /\ lkExecuted = <<0, 1>>
    /\ lkDrivers = <<1, 0, 1>>
    /\ lkDrv = 3
    /\ lkReleased = {1, 2}
    /\ lkSwapPc = "idle"

\* C32: once stop() was called the SyncManager loop begins no cycle and the
\* SSEListener no connection attempt, and both threads end.
C32_StopEndsBothThreads ==
    /\ [][(mode = "stopped" /\ cyc.probe = "none") => cyc'.probe = "none"]_vars
    /\ [][(mode = "stopped" /\ ssePc # "s_connect") => ssePc' # "s_connect"]_vars
    /\ (mode = "stopped")
          ~> (pc[LoopT] \in {"returned", "crashed", "none"} /\ ssePc \in {"returned", "none"})

\* C32 witness: stop() was called while the loop was inside a cycle and the
\* SSEListener had a connection open; both threads have returned on the flag.
C32_Witness ==
    /\ mode = "stopped"
    /\ pc[LoopT] = "returned"
    /\ loopEnd = "stop"
    /\ ssePc = "returned"
    /\ sseEnd = "stop"
    /\ sseConnected

====
